---------------------------- MODULE Spec2Model ----------------------------
(***************************************************************************)
(* A model of the apero event-discovery pipeline:                          *)
(*   - the link crawler of backend/webscraper.py (crawl, main, the        *)
(*     persisted visited set),                                             *)
(*   - the paginated harvester of backend/amiv_api.py (fetch_all_events),  *)
(*   - the refreshment classifier of backend/amiv_api.py                   *)
(*     (infer_refreshments and its helpers).                               *)
(* Strings are sequences of characters, a character being a one-token      *)
(* string, so that lower-casing, suffix tests, substring tests and         *)
(* sorting are computed as the code computes them.                         *)
(***************************************************************************)
EXTENDS Integers, Sequences, FiniteSets, TLC

VARIABLES
    \* ---- link crawler (backend/webscraper.py)
    run,          \* number of the process run of main()
    pc,           \* position of main(): "main", "crawl", "done"; "killed" when the
                  \* process was interrupted ("parked": not run)
    urls,         \* URLS, the seeds main() iterates over
    seedIdx,      \* index in urls of the seed being (or next to be) crawled
    max_depth,    \* the max_depth argument of crawl
    visited,      \* the in-memory visited set of the current seed
    domain,       \* netloc of the current seed
    stack,        \* the call stack of crawl: frames [url, depth, phase, links]
    store,        \* content of visited_urls.json
    web,          \* what each URL answers, fixed when it is first requested
    fetchLog,     \* the requests.get calls of the current seed's crawl, in order
    sleeps,       \* number of time.sleep(1) calls of the current seed's crawl
    found_apero,  \* the match list of the process run
    ioLog,        \* the reads and writes of visited_urls.json for the current seed
    site,         \* the page each URL of the site holds
    \* ---- harvester (backend/amiv_api.py, fetch_all_events)
    hpc,          \* "call", "loop", "returned", "raised" ("parked": not called)
    filter_dict,  \* whether fetch_all_events is given a filter
    hurl,         \* the local url, an optional string
    events,       \* the accumulator
    hresult,      \* what the caller receives
    api,          \* what each page of the API answers, fixed when first requested
    requests,     \* the requests.get calls of the harvest, in order
    \* ---- classifier (backend/amiv_api.py, infer_refreshments)
    cpc,          \* "input", "classified", "compared" ("parked": not called)
    event,        \* the raw event
    rules,        \* the rule table, in iteration order
    result,       \* infer_refreshments(event, rules)
    rules2,       \* the same rules in another iteration order
    result2,      \* infer_refreshments(event, rules2)
    \* ---- field extractor (backend/amiv_api.py, extract_event_fields)
    xpc,          \* "input", "extracted" ("parked": not called)
    rawEvent,     \* the raw event
    extracted     \* what extract_event_fields gives: a record, or an exception

crawlVars == <<run, pc, urls, seedIdx, max_depth, visited, domain, stack,
               store, web, fetchLog, sleeps, found_apero, ioLog, site>>
harvestVars == <<hpc, filter_dict, hurl, events, hresult, api, requests>>
classifyVars == <<cpc, event, rules, result, rules2, result2>>
extractVars == <<xpc, rawEvent, extracted>>
vars == <<crawlVars, harvestVars, classifyVars, extractVars>>

-----------------------------------------------------------------------------
(* Characters and strings                                                  *)

\* The characters used, in increasing Unicode code point order (the order
\* Python's str comparison and sorted() use).  "MIDDOT" stands for U+00B7,
\* "e_acute" for U+00E9 and "COMB_ACUTE" for the combining mark U+0301.
CodeOrder ==
    <<"\t", " ", "#", "&", "(", ")", ",", ".", "/", "1", "2", "3",
      "4", "5", ":", "?", "A", "B", "D", "F", "P", "T", "a", "b",
      "c", "d", "e", "f", "g", "h", "i", "j", "k", "l", "m", "n",
      "o", "p", "q", "r", "s", "t", "u", "v", "w", "x", "y", "z",
      "MIDDOT", "e_acute", "COMB_ACUTE">>

Ord(c) == CHOOSE i \in 1..Len(CodeOrder) : CodeOrder[i] = c

\* The lower-case form of each upper-case letter.
LowerOf ==
    [ A |-> "a", B |-> "b", C |-> "c", D |-> "d", E |-> "e", F |-> "f",
      G |-> "g", H |-> "h", I |-> "i", J |-> "j", K |-> "k", L |-> "l",
      M |-> "m", N |-> "n", O |-> "o", P |-> "p", Q |-> "q", R |-> "r",
      S |-> "s", T |-> "t", U |-> "u", V |-> "v", W |-> "w", X |-> "x",
      Y |-> "y", Z |-> "z" ]

\* str.lower() on one character.
LowerChar(c) == IF c \in DOMAIN LowerOf THEN LowerOf[c] ELSE c

Lower(s) == [i \in 1..Len(s) |-> LowerChar(s[i])]

EndsWith(s, suf) ==
    /\ Len(suf) <= Len(s)
    /\ SubSeq(s, Len(s) - Len(suf) + 1, Len(s)) = suf

StartsWith(s, pre) ==
    /\ Len(pre) <= Len(s)
    /\ SubSeq(s, 1, Len(pre)) = pre

\* Python's str < str: lexicographic by code point.
RECURSIVE StrLess(_, _)
StrLess(s, t) ==
    IF t = <<>> THEN FALSE
    ELSE IF s = <<>> THEN TRUE
    ELSE IF s[1] # t[1] THEN Ord(s[1]) < Ord(t[1])
    ELSE StrLess(Tail(s), Tail(t))

\* sorted(S) for a set of strings.
RECURSIVE Sorted(_)
Sorted(S) ==
    IF S = {} THEN <<>>
    ELSE LET m == CHOOSE x \in S : \A y \in S \ {x} : StrLess(x, y)
         IN  <<m>> \o Sorted(S \ {m})

Range(s) == {s[i] : i \in 1..Len(s)}

\* An optional string: None, or a string (which may be empty).
NoneStr == [some |-> FALSE, s |-> <<>>]
Str(x) == [some |-> TRUE, s |-> x]
\* Python's truth value of an optional string.
Truthy(o) == o.some /\ o.s # <<>>

\* str.isspace() on one character.
IsSpace(c) == c \in {" ", "\t", "\n"}

\* str.strip().
RECURSIVE Strip(_)
Strip(s) ==
    IF s = <<>> THEN s
    ELSE IF IsSpace(s[1]) THEN Strip(Tail(s))
    ELSE IF IsSpace(s[Len(s)]) THEN Strip(SubSeq(s, 1, Len(s) - 1))
    ELSE s


-----------------------------------------------------------------------------
(* Link crawler: URLs                                                      *)

\* Smallest index >= from of a character of C in s, Len(s) + 1 when none.
FirstIndex(s, C, from) ==
    IF \E i \in from..Len(s) : s[i] \in C
    THEN CHOOSE i \in from..Len(s) :
             /\ s[i] \in C
             /\ \A j \in from..(i - 1) : s[j] \notin C
    ELSE Len(s) + 1

\* Largest index of character c in s, 0 when none.
LastIndex(s, c) ==
    IF \E i \in 1..Len(s) : s[i] = c
    THEN CHOOSE i \in 1..Len(s) :
             /\ s[i] = c
             /\ \A j \in (i + 1)..Len(s) : s[j] # c
    ELSE 0

HasScheme(u) ==
    LET c == FirstIndex(u, {":"}, 1)
    IN  /\ c > 1
        /\ c <= Len(u)
        /\ \A j \in 1..(c - 1) : u[j] \notin {"/", "?", "#"}

\* urllib.parse.urlparse(u).netloc: what follows "scheme://" up to the next
\* "/", "?" or "#".
Netloc(u) ==
    LET c == FirstIndex(u, {":"}, 1)
    IN  IF HasScheme(u) /\ c + 2 <= Len(u) /\ u[c + 1] = "/" /\ u[c + 2] = "/"
        THEN SubSeq(u, c + 3, FirstIndex(u, {"/", "?", "#"}, c + 3) - 1)
        ELSE <<>>

\* "scheme://netloc" of an absolute URL.
Origin(u) == SubSeq(u, 1, FirstIndex(u, {"/", "?", "#"}, FirstIndex(u, {":"}, 1) + 3) - 1)

\* urllib.parse.urljoin(base, href) for an absolute base: an href with a
\* scheme is returned as it is, an href starting with "/" replaces the path,
\* any other href replaces the last path segment.
UrlJoin(base, href) ==
    IF HasScheme(href) THEN href
    ELSE IF StartsWith(href, <<"/">>) THEN Origin(base) \o href
    ELSE SubSeq(base, 1, LastIndex(base, "/")) \o href

SchemeSep == <<"h", "t", "t", "p", ":", "/", "/">>
SeedUrl == SchemeSep \o <<"a", "/">>
Page1 == SchemeSep \o <<"a", "/", "1">>
Page2 == SchemeSep \o <<"a", "/", "2">>
Page3 == SchemeSep \o <<"a", "/", "3">>
DocUrl == SchemeSep \o <<"a", "/", "d", ".", "P", "D", "F">>
ImgUrl == SchemeSep \o <<"a", "/", "i", ".", "g", "i", "f">>
SubUrl == SchemeSep \o <<"b", ".", "a", "/">>
RelPage2 == <<"2">>
RootPage3 == <<"/", "3">>

\* The href of an anchor without one (link.get("href") is None or "").
NoHref == <<>>

\* The anchor lists a page may hold.
AnchorChoices ==
    { <<>>,
      <<SeedUrl>>,
      <<Page1, Page2>>,
      <<Page2, Page1>>,
      <<Page2>>,
      <<NoHref, RootPage3>>,
      <<SubUrl, DocUrl, RelPage2>>,
      <<ImgUrl, Page3, Page1>> }

\* A parsed page (resp.text and what BeautifulSoup gives for it): html, the
\* raw text; title, the string of the <title> element; time_el, the stripped
\* text of the first <time> element; loc_el, that of the first element of
\* class location or venue; full_text, the text of the page.
NoPage == [html |-> <<>>, title |-> NoneStr, time_el |-> NoneStr, loc_el |-> NoneStr,
           full_text |-> <<>>]

\* A page without a target phrase.
PlainPage ==
    [html |-> <<"h", "i">>, title |-> Str(<<"H", "i">>), time_el |-> NoneStr,
     loc_el |-> NoneStr, full_text |-> <<"h", "i">>]

\* A page announcing an event.
AperoPage ==
    [html |-> <<"A", "p", "e", "r", "o", " ", "a", "t", " ", "V", "e", "n", "u", "e", ":", " ", "H", "G">>,
     title |-> Str(<<" ", "A", "p", "e", "r", "o", " ">>),
     time_el |-> Str(<<"2", "0", "2", "4", "-", "0", "5", "-", "0", "1", " ", "1", "8", ":", "3", "0">>),
     loc_el |-> NoneStr,
     full_text |-> <<"A", "p", "e", "r", "o", " ", "a", "t", " ", "V", "e", "n", "u", "e", ":", " ", "H", "G">>]

\* The body of an error answer; it names a target phrase and holds links.
ErrorPage ==
    [html |-> <<"n", "o", " ", "a", "p", "e", "r", "o", " ", "h", "e", "r", "e">>,
     title |-> NoneStr, time_el |-> NoneStr, loc_el |-> NoneStr,
     full_text |-> <<"n", "o", " ", "a", "p", "e", "r", "o", " ", "h", "e", "r", "e">>]
ErrorAnchors == <<Page2, Page1, Page3>>

\* The URLs of the site.
SiteUrls == {SeedUrl, Page1, Page2, Page3}

\* A site where the seed and one linked page announce an event.
DefaultSite ==
    [u \in SiteUrls |-> IF u \in {SeedUrl, Page2} THEN AperoPage ELSE PlainPage]

\* The page a URL serves; a URL outside the site serves a plain page.
PageAt(u) == IF u \in DOMAIN site THEN site[u] ELSE PlainPage

\* What requests.get(url) gives: an exception, an error status with its
\* body, or a 200 with the page of the URL and the anchors it holds now.
Responses(u) ==
    { [exc |-> TRUE, status |-> 0, anchors |-> <<>>, page |-> NoPage],
      [exc |-> FALSE, status |-> 404, anchors |-> ErrorAnchors, page |-> ErrorPage] }
    \cup { [exc |-> FALSE, status |-> 200, anchors |-> a, page |-> PageAt(u)] :
              a \in AnchorChoices }

\* The extensions of line 164.
SkippedExtensions ==
    { <<".", "p", "d", "f">>, <<".", "j", "p", "g">>, <<".", "j", "p", "e", "g">>,
      <<".", "p", "n", "g">>, <<".", "g", "i", "f">> }

HasSkippedExtension(absolute) ==
    \E ext \in SkippedExtensions : EndsWith(Lower(absolute), ext)

\* Largest max_depth argument tried.
MaxDepthArg == 2
\* Number of process runs of main().
MaxRuns == 2

SeedLists == { <<SeedUrl>>, <<SeedUrl, Page1>> }

-----------------------------------------------------------------------------
(* Link crawler: the persisted visited set                                 *)

NoFile == [state |-> "absent", content |-> <<>>]
CorruptFile == [state |-> "corrupt", content |-> <<>>]

InitialStores == { NoFile, CorruptFile, [state |-> "ok", content |-> <<Page2>>] }

\* A load that always starts fresh.
load_visited_Fresh(file) == {}

\* load_visited: set(json.load(f)); set() when the file is missing or
\* cannot be read.
load_visited(file) ==
    IF file.state = "ok" THEN Range(file.content) ELSE {}

\* A save that writes nothing.
save_visited_Skipped(file, v) == file

\* save_visited: json.dump(sorted(visited), f).
save_visited(file, v) == [state |-> "ok", content |-> Sorted(v)]

-----------------------------------------------------------------------------
(* Link crawler: the match step                                            *)

IsDigit(c) == c \in {"0", "1", "2", "3", "4", "5", "6", "7", "8", "9"}

IsLetter(c) ==
    c \in {"a", "b", "c", "d", "e", "f", "g", "h", "i", "j", "k", "l", "m",
           "n", "o", "p", "q", "r", "s", "t", "u", "v", "w", "x", "y", "z",
           "A", "B", "C", "D", "E", "F", "G", "H", "I", "J", "K", "L", "M",
           "N", "O", "P", "Q", "R", "S", "T", "U", "V", "W", "X", "Y", "Z"}

\* The smallest element of a non-empty set of integers.
Least(S) == CHOOSE i \in S : \A j \in S : i <= j

\* Whether s holds, from position i on, characters passing the tests of
\* pattern in turn ("DIGIT": a digit, any other: that character).
MatchesAt(s, i, pattern) ==
    /\ i + Len(pattern) - 1 <= Len(s)
    /\ \A k \in 1..Len(pattern) :
         IF pattern[k] = "DIGIT" THEN IsDigit(s[i + k - 1]) ELSE s[i + k - 1] = pattern[k]

\* re.search of one of the alternatives (tried in order at each start), the
\* leftmost start winning: group(0), or None.
SearchPatterns(s, alternatives) ==
    LET starts == { i \in 1..Len(s) :
                      \E a \in 1..Len(alternatives) : MatchesAt(s, i, alternatives[a]) }
    IN  IF starts = {} THEN NoneStr
        ELSE LET i == Least(starts)
                 a == Least({ n \in 1..Len(alternatives) : MatchesAt(s, i, alternatives[n]) })
             IN  Str(SubSeq(s, i, i + Len(alternatives[a]) - 1))

\* Line 86: re.search(r"(\d{4}-\d{2}-\d{2})", text).
DateSearch(text) ==
    SearchPatterns(text, << <<"DIGIT", "DIGIT", "DIGIT", "DIGIT", "-", "DIGIT", "DIGIT", "-", "DIGIT", "DIGIT">> >>)

\* Line 87: re.search(r"(\d{1,2}:\d{2})", text); \d{1,2} is greedy.
TimeSearch(text) ==
    SearchPatterns(text, << <<"DIGIT", "DIGIT", ":", "DIGIT", "DIGIT">>, <<"DIGIT", ":", "DIGIT", "DIGIT">> >>)

apero == <<"a", "p", "e", "r", "o">>
aperitif == <<"a", "p", "e", "r", "i", "t", "i", "f">>

\* The positions of html where one of the target phrases starts, whatever
\* the case of the letters.
PhraseStarts(html) ==
    LET lowered == Lower(html)
    IN  { i \in 1..Len(html) :
            \/ MatchesAt(lowered, i, apero)
            \/ MatchesAt(lowered, i, aperitif) }

\* Line 140: re.search(r"apero|aperitif", html, re.IGNORECASE).
ContainsPhrase(html) == PhraseStarts(html) # {}

\* Characters of context on each side of the phrase in the snippet.
SnippetContext == 100

\* Whether no character of s at the positions from..to is a newline ("."
\* matches any other character).
NoNewline(s, from, to) == \A k \in from..to : s[k] # "\n"

\* Line 142: re.search(r".{0,100}(apero|aperitif).{0,100}", html,
\* re.IGNORECASE): the leftmost start from which a phrase is reached within
\* 100 characters of the same line; the greedy prefix takes the last such
\* phrase, the greedy suffix up to 100 characters of the line.
SnippetSearch(html) ==
    LET phrases == PhraseStarts(html)
        reach(s) == { p \in phrases :
                        /\ s <= p
                        /\ p - s <= SnippetContext
                        /\ NoNewline(html, s, p - 1) }
        starts == { s \in 1..Len(html) : reach(s) # {} }
    IN  IF starts = {} THEN NoneStr
        ELSE LET s == Least(starts)
                 p == CHOOSE q \in reach(s) : \A r \in reach(s) : r <= q
                 e == p + (IF MatchesAt(Lower(html), p, apero) THEN Len(apero)
                           ELSE Len(aperitif))
                 tail == { n \in 0..SnippetContext :
                             /\ e + n - 1 <= Len(html)
                             /\ NoNewline(html, e, e + n - 1) }
                 n == CHOOSE m \in tail : \A r \in tail : r <= m
             IN  Str(SubSeq(html, s, e + n - 1))

\* [A-Za-z0-9 ,.-]
IsLocChar(c) == IsLetter(c) \/ IsDigit(c) \/ c \in {" ", ",", ".", "-"}

\* \s* at position i: the length of the longest run of whitespace.
SpaceRun(s, i) ==
    Least({ j \in i..(Len(s) + 1) : j > Len(s) \/ ~IsSpace(s[j]) }) - i

\* [A-Za-z0-9 ,.-]+ at position i: the length of the longest run of the class.
LocRun(s, i) ==
    Least({ j \in i..(Len(s) + 1) : j > Len(s) \/ ~IsLocChar(s[j]) }) - i

\* Line 98: one attempt of (?:Venue|Location)[:\-]\s*([A-Za-z0-9 ,.-]+) at
\* position i: the position group(1) starts at, 0 when the attempt fails.
\* \s* is greedy and gives characters back until one of the class follows.
LocGroupStart(t, i) ==
    LET w == IF MatchesAt(Lower(t), i, <<"v", "e", "n", "u", "e">>) THEN 5
             ELSE IF MatchesAt(Lower(t), i, <<"l", "o", "c", "a", "t", "i", "o", "n">>) THEN 8
             ELSE 0
        b == i + w + 1
        n == SpaceRun(t, b)
        ks == { k \in 0..n : b + k <= Len(t) /\ IsLocChar(t[b + k]) }
    IN  IF w = 0 \/ i + w > Len(t) \/ t[i + w] \notin {":", "-"} \/ ks = {} THEN 0
        ELSE b + (CHOOSE k \in ks : \A j \in ks : j <= k)

\* Lines 98-100: group(1) of the leftmost match, or None.
LocationSearch(full_text) ==
    LET starts == { i \in 1..Len(full_text) :
                      /\ Lower(<<full_text[i]>>) \in {<<"v">>, <<"l">>}
                      /\ LocGroupStart(full_text, i) > 0 }
    IN  IF starts = {} THEN NoneStr
        ELSE LET g == LocGroupStart(full_text, Least(starts))
             IN  Str(SubSeq(full_text, g, g + LocRun(full_text, g) - 1))

\* A value that stands for None where the placeholder belongs.
NotFound_Null == NoneStr

\* Lines 75-78: the placeholder.
NotFound == Str(<<"N", "o", "t", " ", "f", "o", "u", "n", "d">>)

NoTitle == Str(<<"N", "o", " ", "t", "i", "t", "l", "e">>)
SnippetNotAvailable ==
    Str(<<"S", "n", "i", "p", "p", "e", "t", " ", "n", "o", "t", " ",
          "a", "v", "a", "i", "l", "a", "b", "l", "e">>)

\* extract_event_details.  A parsed page gives: time_el, the stripped text
\* of the first <time> element; loc_el, the stripped text of the first
\* element of class location or venue; full_text, the text of the page.
extract_event_details(soup) ==
    LET date_match == IF soup.time_el.some THEN DateSearch(soup.time_el.s) ELSE NoneStr
        time_match == IF soup.time_el.some THEN TimeSearch(soup.time_el.s) ELSE NoneStr
        loc_match == LocationSearch(soup.full_text)
    IN  [date |-> IF date_match.some THEN date_match ELSE NotFound,
         start_time |-> IF time_match.some THEN time_match ELSE NotFound,
         end_time |-> NotFound,
         location |-> IF soup.loc_el.some THEN soup.loc_el
                      ELSE IF loc_match.some THEN Str(Strip(loc_match.s))
                      ELSE NotFound]

\* Line 137: the title; soup.title is the string of the <title> element,
\* None without such an element or when it holds no single string.
PageTitle(soup) == IF Truthy(soup.title) THEN Str(Strip(soup.title.s)) ELSE NoTitle

\* Lines 140-152: the records the page adds to found_apero.
MatchRecords(url, soup) ==
    IF ContainsPhrase(soup.html)
    THEN LET details == extract_event_details(soup)
             snippet_match == SnippetSearch(soup.html)
         IN  << [url |-> Str(url),
                 title |-> PageTitle(soup),
                 snippet |-> IF snippet_match.some THEN snippet_match
                             ELSE SnippetNotAvailable,
                 date |-> details.date,
                 start_time |-> details.start_time,
                 end_time |-> details.end_time,
                 location |-> details.location] >>
    ELSE <<>>

-----------------------------------------------------------------------------
(* Link crawler: crawl and main                                            *)

Frame(u, d) == [url |-> u, depth |-> d, phase |-> "entry", links |-> <<>>]

Top == stack[Len(stack)]
Pop == SubSeq(stack, 1, Len(stack) - 1)
SetTop(f) == [stack EXCEPT ![Len(stack)] = f]

CrawlInit ==
    /\ run = 1
    /\ pc = "main"
    /\ urls \in SeedLists
    /\ seedIdx = 1
    /\ max_depth \in 0..MaxDepthArg
    /\ visited = {}
    /\ domain = <<>>
    /\ stack = <<>>
    /\ store \in InitialStores
    /\ web = <<>>
    /\ fetchLog = <<>>
    /\ sleeps = 0
    /\ found_apero = <<>>
    /\ ioLog = <<>>
    /\ site = DefaultSite

CrawlParked ==
    /\ run = 0
    /\ pc = "parked"
    /\ urls = <<>>
    /\ seedIdx = 0
    /\ max_depth = 0
    /\ visited = {}
    /\ domain = <<>>
    /\ stack = <<>>
    /\ store = NoFile
    /\ web = <<>>
    /\ fetchLog = <<>>
    /\ sleeps = 0
    /\ found_apero = <<>>
    /\ ioLog = <<>>
    /\ site = <<>>

\* main, lines 172-176: load the visited set and call crawl on the seed.
StartSeed ==
    /\ pc = "main"
    /\ seedIdx <= Len(urls)
    /\ visited' = load_visited(store)
    /\ domain' = Netloc(urls[seedIdx])
    /\ stack' = <<Frame(urls[seedIdx], 0)>>
    /\ fetchLog' = <<>>
    /\ sleeps' = 0
    /\ pc' = "crawl"
    /\ ioLog' = <<[op |-> "load", file |-> store]>>
    /\ UNCHANGED <<run, urls, seedIdx, max_depth, store, web, found_apero, site>>
    /\ UNCHANGED <<harvestVars, classifyVars, extractVars>>

\* crawl, line 121: the entry guard.
EntryVisited(u, v) == u \in v

\* A crawl that forgets to mark the URL.
MarkVisited_Forgotten(v, u) == v

\* crawl, line 123: visited.add(url).
MarkVisited(v, u) == v \cup {u}

CrawlEntry ==
    /\ pc = "crawl"
    /\ stack # <<>>
    /\ Top.phase = "entry"
    /\ IF EntryVisited(Top.url, visited)
       THEN /\ stack' = Pop
            /\ UNCHANGED visited
       ELSE /\ visited' = MarkVisited(visited, Top.url)
            /\ stack' = SetTop([Top EXCEPT !.phase = "fetch"])
    /\ UNCHANGED <<run, pc, urls, seedIdx, max_depth, domain, store, web,
                   fetchLog, sleeps, found_apero, ioLog, site>>
    /\ UNCHANGED <<harvestVars, classifyVars, extractVars>>

\* A test that takes any answer for a page.
FetchOk_AnyStatus(resp) == ~resp.exc

\* crawl, lines 125-133: whether the request gave a page.
FetchOk(resp) == ~resp.exc /\ resp.status = 200

\* crawl, lines 125-153: the request, where a failure returns, and the
\* match step.
CrawlFetch ==
    /\ pc = "crawl"
    /\ stack # <<>>
    /\ Top.phase = "fetch"
    /\ \E resp \in Responses(Top.url) :
         /\ Top.url \in DOMAIN web => resp = web[Top.url]
         /\ web' = IF Top.url \in DOMAIN web THEN web ELSE web @@ (Top.url :> resp)
         /\ fetchLog' = Append(fetchLog, [url |-> Top.url, depth |-> Top.depth])
         /\ IF FetchOk(resp)
            THEN /\ found_apero' = found_apero \o MatchRecords(Top.url, resp.page)
                 /\ stack' = SetTop([Top EXCEPT !.phase = "links", !.links = resp.anchors])
            ELSE /\ UNCHANGED found_apero
                 /\ stack' = Pop
    /\ UNCHANGED <<run, pc, urls, seedIdx, max_depth, visited, domain, store, sleeps,
                   ioLog, site>>
    /\ UNCHANGED <<harvestVars, classifyVars, extractVars>>

\* A depth test that is off by one.
FollowLink_DepthOffByOne(absolute, dom, v, depth, maxd) ==
    /\ Netloc(absolute) = dom
    /\ ~HasSkippedExtension(absolute)
    /\ absolute \notin v
    /\ depth <= maxd

\* An extension test that forgets lower().
FollowLink_CaseSensitive(absolute, dom, v, depth, maxd) ==
    /\ Netloc(absolute) = dom
    /\ ~\E ext \in SkippedExtensions : EndsWith(absolute, ext)
    /\ absolute \notin v
    /\ depth < maxd

\* crawl, lines 162-166: whether the resolved link is followed.
FollowLink(absolute, dom, v, depth, maxd) ==
    /\ Netloc(absolute) = dom
    /\ ~HasSkippedExtension(absolute)
    /\ absolute \notin v
    /\ depth < maxd

\* A loop that puts the anchor it handled back at the end of the list.
NextAnchors_Requeue(links) == Tail(links) \o <<Head(links)>>

\* crawl, line 156: the loop goes on to the next anchor.
NextAnchors(links) == Tail(links)

\* A loop that sleeps on every anchor.
DelayFor_Always(follow) == 1

\* crawl, lines 166-167: time.sleep(1) is called once, inside the test that
\* lets the link through.
DelayFor(follow) == IF follow THEN 1 ELSE 0

\* crawl, lines 156-168: one iteration of the loop over the anchors.
CrawlLink ==
    /\ pc = "crawl"
    /\ stack # <<>>
    /\ Top.phase = "links"
    /\ Top.links # <<>>
    /\ LET href == Head(Top.links)
           rest == SetTop([Top EXCEPT !.links = NextAnchors(Top.links)])
           absolute == UrlJoin(Top.url, href)
           follow == href # NoHref
                     /\ FollowLink(absolute, domain, visited, Top.depth, max_depth)
       IN  /\ sleeps' = sleeps + DelayFor(follow)
           /\ stack' = IF follow
                       THEN Append(rest, Frame(absolute, Top.depth + 1))
                       ELSE rest
    /\ UNCHANGED <<run, pc, urls, seedIdx, max_depth, visited, domain, store, web,
                   fetchLog, found_apero, ioLog, site>>
    /\ UNCHANGED <<harvestVars, classifyVars, extractVars>>

\* crawl returns when the loop is over.
CrawlReturn ==
    /\ pc = "crawl"
    /\ stack # <<>>
    /\ Top.phase = "links"
    /\ Top.links = <<>>
    /\ stack' = Pop
    /\ UNCHANGED <<run, pc, urls, seedIdx, max_depth, visited, domain, store, web,
                   fetchLog, sleeps, found_apero, ioLog, site>>
    /\ UNCHANGED <<harvestVars, classifyVars, extractVars>>

\* main, line 177: crawl has returned; save the visited set.
SaveSeed ==
    /\ pc = "crawl"
    /\ stack = <<>>
    /\ store' = save_visited(store, visited)
    /\ seedIdx' = seedIdx + 1
    /\ pc' = "main"
    /\ ioLog' = Append(ioLog, [op |-> "save", file |-> store'])
    /\ UNCHANGED <<run, urls, max_depth, visited, domain, stack, web, fetchLog, sleeps,
                   found_apero, site>>
    /\ UNCHANGED <<harvestVars, classifyVars, extractVars>>

\* save_visited, lines 62-63: the write fails and the exception is caught.
\* When open() fails the file is as it was; when json.dump fails after
\* open() has truncated the file, what is left cannot be loaded.
FailedWrites(file) == {file, CorruptFile}

\* main, line 177, where save_visited fails: main goes on to the next seed.
SaveSeedFails ==
    /\ pc = "crawl"
    /\ stack = <<>>
    /\ store' \in FailedWrites(store)
    /\ seedIdx' = seedIdx + 1
    /\ pc' = "main"
    /\ ioLog' = Append(ioLog, [op |-> "save_failed", file |-> store'])
    /\ UNCHANGED <<run, urls, max_depth, visited, domain, stack, web, fetchLog, sleeps,
                   found_apero, site>>
    /\ UNCHANGED <<harvestVars, classifyVars, extractVars>>

\* main, lines 179-182: every seed is done.
Finish ==
    /\ pc = "main"
    /\ seedIdx > Len(urls)
    /\ pc' = "done"
    /\ UNCHANGED <<run, urls, seedIdx, max_depth, visited, domain, stack, store, web,
                   fetchLog, sleeps, found_apero, ioLog, site>>
    /\ UNCHANGED <<harvestVars, classifyVars, extractVars>>

\* The script is started again.
NextRun ==
    /\ pc = "done"
    /\ run < MaxRuns
    /\ run' = run + 1
    /\ pc' = "main"
    /\ seedIdx' = 1
    /\ visited' = {}
    /\ domain' = <<>>
    /\ fetchLog' = <<>>
    /\ sleeps' = 0
    /\ found_apero' = <<>>
    /\ ioLog' = <<>>
    /\ UNCHANGED <<urls, max_depth, stack, store, web, site>>
    /\ UNCHANGED <<harvestVars, classifyVars, extractVars>>

\* The process is interrupted while crawl runs (main has no handler around
\* lines 176-177): what it held in memory is lost, the file stays as it is.
Interrupt ==
    /\ pc = "crawl"
    /\ stack # <<>>
    /\ pc' = "killed"
    /\ stack' = <<>>
    /\ UNCHANGED <<run, urls, seedIdx, max_depth, visited, domain, store, web,
                   fetchLog, sleeps, found_apero, ioLog, site>>
    /\ UNCHANGED <<harvestVars, classifyVars, extractVars>>

CrawlNext ==
    \/ StartSeed
    \/ CrawlEntry
    \/ CrawlFetch
    \/ CrawlLink
    \/ CrawlReturn
    \/ SaveSeed
    \/ Finish
    \/ NextRun
    \/ Interrupt

\* A step of crawl: the running call goes on.
CrawlStep ==
    \/ CrawlEntry
    \/ CrawlFetch
    \/ CrawlLink
    \/ CrawlReturn

-----------------------------------------------------------------------------
(* Link crawler: properties                                                *)

Seed == urls[seedIdx]

\* The absolute URLs the anchors of a fetched page resolve to.
ResolvedAnchors(u) ==
    { UrlJoin(u, web[u].anchors[k]) :
        k \in { n \in 1..Len(web[u].anchors) : web[u].anchors[n] # NoHref } }

FetchedUrls == { fetchLog[i].url : i \in 1..Len(fetchLog) }

\* C1: in one crawl run a URL is in the visited set before its fetch is
\* attempted, and no URL is requested twice, whether its fetch succeeded or
\* failed.
C1_FetchedAtMostOnce ==
    /\ \A i, j \in 1..Len(fetchLog) : i # j => fetchLog[i].url # fetchLog[j].url
    /\ \A i \in 1..Len(fetchLog) : fetchLog[i].url \in visited
    /\ \A k \in 1..Len(stack) : stack[k].phase = "fetch" => stack[k].url \in visited

\* A finished crawl in which a URL whose fetch failed was linked again from
\* a page fetched later, at a depth where the link could have been followed.
C1_Witness ==
    /\ pc = "crawl"
    /\ stack = <<>>
    /\ \E i, j \in 1..Len(fetchLog) :
         /\ i < j
         /\ ~FetchOk(web[fetchLog[i].url])
         /\ FetchOk(web[fetchLog[j].url])
         /\ fetchLog[j].depth < max_depth
         /\ fetchLog[i].url \in ResolvedAnchors(fetchLog[j].url)

\* C2: a crawl whose persisted visited set contains the seed performs no
\* fetch (and follows no link).
C2_SeedPersistedNoFetch ==
    (pc = "crawl" /\ store.state = "ok" /\ Seed \in Range(store.content))
        => (fetchLog = <<>> /\ sleeps = 0)

\* The second run of the script has crawled to the end from the seed the
\* first run fetched and persisted.
C2_Witness ==
    /\ run = 2
    /\ pc = "crawl"
    /\ stack = <<>>
    /\ seedIdx = 1
    /\ store.state = "ok"
    /\ Seed \in Range(store.content)
    /\ Seed \in DOMAIN web
    /\ fetchLog = <<>>

\* C3: no page is fetched, and no call of crawl is made, at a depth greater
\* than max_depth; with max_depth = 0 only the seed is fetched and no link
\* is followed.
C3_DepthBounded ==
    /\ \A i \in 1..Len(fetchLog) : fetchLog[i].depth <= max_depth
    /\ \A k \in 1..Len(stack) : stack[k].depth <= max_depth
    /\ (pc = "crawl" /\ max_depth = 0) =>
         /\ \A i \in 1..Len(fetchLog) : fetchLog[i].url = Seed
         /\ Len(fetchLog) <= 1
         /\ Len(stack) <= 1
         /\ sleeps = 0

\* A finished crawl that reached depth max_depth > 0 on a page holding a
\* link that only the depth test kept from being followed.
C3_Witness ==
    /\ pc = "crawl"
    /\ stack = <<>>
    /\ max_depth > 0
    /\ \E i \in 1..Len(fetchLog) :
         /\ fetchLog[i].depth = max_depth
         /\ FetchOk(web[fetchLog[i].url])
         /\ \E a \in ResolvedAnchors(fetchLog[i].url) :
              /\ Netloc(a) = domain
              /\ ~HasSkippedExtension(a)
              /\ a \notin visited

\* C4: every fetched URL other than the seed has the seed's netloc and does
\* not end, lower-cased, in .pdf, .jpg, .jpeg, .png or .gif.
C4_FetchedInScope ==
    pc = "crawl" =>
        \A i \in 1..Len(fetchLog) :
            fetchLog[i].url # Seed =>
                /\ Netloc(fetchLog[i].url) = Netloc(Seed)
                /\ ~HasSkippedExtension(fetchLog[i].url)

\* A finished crawl that fetched a page linking, at a depth where links are
\* followed, to a subdomain and to an upper-case .PDF, and fetched neither.
C4_Witness ==
    /\ pc = "crawl"
    /\ stack = <<>>
    /\ \E i \in 1..Len(fetchLog) :
         /\ FetchOk(web[fetchLog[i].url])
         /\ fetchLog[i].depth < max_depth
         /\ {SubUrl, DocUrl} \subseteq ResolvedAnchors(fetchLog[i].url)
         /\ Page2 \in FetchedUrls
    /\ SubUrl \notin FetchedUrls
    /\ DocUrl \notin FetchedUrls

\* Whether a URL has been requested and has answered with status 200.
Answered200(u) == u \in DOMAIN web /\ ~web[u].exc /\ web[u].status = 200

\* The set load_visited gave for the current seed.
LoadedSet ==
    IF ioLog # <<>> /\ ioLog[1].file.state = "ok" THEN Range(ioLog[1].file.content) ELSE {}

CrawlReturned == pc = "crawl" /\ stack = <<>>

\* C11: a fetch that fails (exception, or a status other than 200) gives up
\* its node only: no MatchRecord is appended for it and no link of it is
\* followed (every fetch below the seed comes from an anchor of a page that
\* answered 200, one level up); the crawl returns normally with every
\* eligible anchor of every page that answered 200 above max_depth
\* processed (fetched in this crawl, or visited before it).
C11_FailedFetchAbandonsNode ==
    pc = "crawl" =>
        /\ \A k \in 1..Len(found_apero) : Answered200(found_apero[k].url.s)
        /\ \A k \in 1..Len(stack) :
              stack[k].phase = "links" => Answered200(stack[k].url)
        /\ \A i \in 1..Len(fetchLog) :
              fetchLog[i].depth > 0 =>
                 \E j \in 1..(i - 1) :
                    /\ Answered200(fetchLog[j].url)
                    /\ fetchLog[j].depth = fetchLog[i].depth - 1
                    /\ fetchLog[i].url \in ResolvedAnchors(fetchLog[j].url)
        /\ stack = <<>> =>
              \A i \in 1..Len(fetchLog) :
                 (Answered200(fetchLog[i].url) /\ fetchLog[i].depth < max_depth) =>
                    \A a \in ResolvedAnchors(fetchLog[i].url) :
                       (Netloc(a) = domain /\ ~HasSkippedExtension(a)) =>
                           a \in FetchedUrls \cup LoadedSet

\* A crawl has returned in which a page answered 404 with a body naming
\* the phrase and holding links, at a depth where links are followed; a
\* sibling after it was fetched and answered 200, a page only the failed one
\* links to was never requested, and the match list holds records, none of
\* the failed page.
C11_Witness ==
    /\ CrawlReturned
    /\ found_apero # <<>>
    /\ Page3 \notin visited
    /\ \E i, j \in 1..Len(fetchLog) :
         /\ i < j
         /\ web[fetchLog[i].url].status = 404
         /\ fetchLog[i].depth = fetchLog[j].depth
         /\ fetchLog[i].depth < max_depth
         /\ Answered200(fetchLog[j].url)
         /\ \A k \in 1..Len(found_apero) : found_apero[k].url.s # fetchLog[i].url

DetailBodies ==
    { <<"h", "i">>,
      <<"A", "p", "e", "r", "o">>,
      <<"a", "\n", "A", "P", "E", "R", "I", "T", "I", "F", " ", "a", "t", " ", "V", "e", "n", "u", "e", "-", " ", "H", "G", " ", "1", ".", "\n", "b">>,
      <<"a", "p", "e", "r", "o", " ", "L", "o", "c", "a", "t", "i", "o", "n", ":", " ", " ", "(", "x", ")">> }

\* The string of the <title> element: none, empty, or a text.
DetailTitles ==
    { NoneStr,
      Str(<<>>),
      Str(<<" ", "H", "i", " ">>) }

\* The text of the first <time> element: no element, empty, a date and a
\* time, a time only, neither, and digits that only look like a time.
DetailTimes ==
    { NoneStr,
      Str(<<>>),
      Str(<<"2", "0", "2", "4", "-", "0", "5", "-", "0", "1", "T", "1", "8", ":", "3", "0">>),
      Str(<<"7", ":", "0", "5", " ", "p", "m">>),
      Str(<<"s", "o", "o", "n">>),
      Str(<<"1", "2", "3", ":", "4", "5">>) }

\* The text of the first element of class location or venue.
DetailLocations ==
    { NoneStr,
      Str(<<>>),
      Str(<<"H", "G">>) }

\* The pages made of these parts.
DetailPages ==
    { [html |-> b, title |-> t, time_el |-> tm, loc_el |-> l, full_text |-> b] :
        b \in DetailBodies, t \in DetailTitles, tm \in DetailTimes, l \in DetailLocations }

\* A page that names a date, a time and a venue.
EventPage ==
    [html |-> <<"a", "\n", "A", "P", "E", "R", "I", "T", "I", "F", " ", "a", "t", " ", "V", "e", "n", "u", "e", "-", " ", "H", "G", " ", "1", ".", "\n", "b">>,
     title |-> Str(<<" ", "H", "i", " ">>),
     time_el |-> Str(<<"2", "0", "2", "4", "-", "0", "5", "-", "0", "1", "T", "1", "8", ":", "3", "0">>),
     loc_el |-> NoneStr,
     full_text |-> <<"a", "\n", "A", "P", "E", "R", "I", "T", "I", "F", " ", "a", "t", " ", "V", "e", "n", "u", "e", "-", " ", "H", "G", " ", "1", ".", "\n", "b">>]

\* The sites: the seed serves any of the pages, every other URL EventPage.
DetailSites ==
    { [u \in SiteUrls |-> IF u = SeedUrl THEN p ELSE EventPage] : p \in DetailPages }

\* The keys of a MatchRecord, lines 144-152.
MatchRecordFields ==
    {"url", "title", "snippet", "date", "start_time", "end_time", "location"}

\* Whether a text holds four digits, "-", two digits, "-", two digits.
HoldsDate(s) ==
    \E i \in 1..(Len(s) - 9) :
        /\ \A k \in {0, 1, 2, 3, 5, 6, 8, 9} : IsDigit(s[i + k])
        /\ s[i + 4] = "-"
        /\ s[i + 7] = "-"

\* Whether a text holds a digit, ":" and two digits.
HoldsTime(s) ==
    \E i \in 1..(Len(s) - 3) :
        /\ IsDigit(s[i])
        /\ s[i + 1] = ":"
        /\ IsDigit(s[i + 2])
        /\ IsDigit(s[i + 3])

\* Whether a text holds "venue" or "location" in any case, then ":" or "-",
\* then whitespace or none, then a character a location may hold.
HoldsLocation(s) ==
    \E w \in {<<"v", "e", "n", "u", "e">>, <<"l", "o", "c", "a", "t", "i", "o", "n">>} :
        \E i \in 1..(Len(s) - Len(w) - 1) :
            /\ Lower(SubSeq(s, i, i + Len(w) - 1)) = w
            /\ s[i + Len(w)] \in {":", "-"}
            /\ \E j \in (i + Len(w) + 1)..Len(s) :
                 /\ \A k \in (i + Len(w) + 1)..(j - 1) : IsSpace(s[k])
                 /\ IsLocChar(s[j])

\* C18: every MatchRecord in found_apero has its seven fields set to a
\* string, none is null; end_time, which nothing extracts, is "Not found";
\* date and start_time are "Not found" when the page has no <time> element or
\* its text holds no date, no time; location is "Not found" when the page has
\* no location or venue element and its text names no venue.
C18_FieldsNeverNull ==
    \A i \in 1..Len(found_apero) :
        LET r == found_apero[i]
            page == PageAt(r.url.s)
        IN  /\ DOMAIN r = MatchRecordFields
            /\ \A f \in MatchRecordFields : r[f].some
            /\ r.end_time = NotFound
            /\ (~page.time_el.some \/ ~HoldsDate(page.time_el.s)) => r.date = NotFound
            /\ (~page.time_el.some \/ ~HoldsTime(page.time_el.s)) => r.start_time = NotFound
            /\ (~page.loc_el.some /\ ~HoldsLocation(page.full_text))
                   => r.location = NotFound

\* The crawl has appended a record where no date, time, location or title
\* was found, and one where date, time and location were found.
C18_Witness ==
    /\ \E i \in 1..Len(found_apero) :
         /\ found_apero[i].date = NotFound
         /\ found_apero[i].start_time = NotFound
         /\ found_apero[i].location = NotFound
         /\ found_apero[i].title = NoTitle
    /\ \E i \in 1..Len(found_apero) :
         /\ found_apero[i].date.s = <<"2", "0", "2", "4", "-", "0", "5", "-", "0", "1">>
         /\ found_apero[i].start_time.s = <<"1", "8", ":", "3", "0">>
         /\ found_apero[i].location.s = <<"H", "G", " ", "1", ".">>
         /\ found_apero[i].end_time = NotFound

\* C21: found_apero never holds two records with the same url.
C21_OneRecordPerUrl ==
    \A i, j \in 1..Len(found_apero) :
        i # j => found_apero[i].url # found_apero[j].url

\* crawl as a function, for a site where every request answers 200: the
\* visited set after crawl(u, dom, v, d, maxd), where anchorsOf gives the
\* anchors of each page (a page not in its domain has none).  CrawlOf is
\* lines 121-123 and the call of the loop, CrawlLinksOf the loop of lines
\* 156-168 over the anchors left.
RECURSIVE CrawlOf(_, _, _, _, _, _), CrawlLinksOf(_, _, _, _, _, _, _)
CrawlOf(anchorsOf, dom, maxd, u, d, v) ==
    IF u \in v THEN v
    ELSE CrawlLinksOf(anchorsOf, dom, maxd, u, d, v \cup {u},
                      IF u \in DOMAIN anchorsOf THEN anchorsOf[u] ELSE <<>>)

CrawlLinksOf(anchorsOf, dom, maxd, u, d, v, links) ==
    IF links = <<>> THEN v
    ELSE LET absolute == UrlJoin(u, Head(links))
             follow == Head(links) # NoHref /\ FollowLink(absolute, dom, v, d, maxd)
         IN  CrawlLinksOf(anchorsOf, dom, maxd, u, d,
                          IF follow THEN CrawlOf(anchorsOf, dom, maxd, absolute, d + 1, v)
                          ELSE v,
                          Tail(links))

\* The anchors of the pages fetched so far.
KnownAnchors == [u \in FetchedUrls |-> web[u].anchors]

\* The same pages with the anchors of the seed in the opposite order.
SeedAnchorsReversed ==
    [u \in FetchedUrls |->
        IF u = Seed
        THEN [k \in 1..Len(web[u].anchors) |-> web[u].anchors[Len(web[u].anchors) + 1 - k]]
        ELSE web[u].anchors]

\* The links of a fetched page that lines 158-165 let through: with an href,
\* of the domain of the seed, without a skipped extension.
ScopeLinks(u) ==
    { a \in ResolvedAnchors(u) : Netloc(a) = domain /\ ~HasSkippedExtension(a) }

\* The pages at a link distance of n at most from the seed, over the links
\* of the pages fetched.
RECURSIVE WithinDistance(_)
WithinDistance(n) ==
    IF n = 0 THEN {Seed}
    ELSE LET near == WithinDistance(n - 1)
         IN  near \cup UNION { ScopeLinks(u) : u \in near \cap FetchedUrls }

\* The crawl of a seed has returned; it started from an empty visited set
\* and every request answered 200.
FreshCrawlReturned ==
    /\ CrawlReturned
    /\ LoadedSet = {}
    /\ fetchLog # <<>>
    /\ \A i \in 1..Len(fetchLog) : Answered200(fetchLog[i].url)

\* C22: a fresh crawl without failures fetches the pages a depth-first
\* walk reaches, each marked at the depth it is first reached at; a page in
\* scope that is linked and not fetched is linked only from pages fetched at
\* depth max_depth.
C22_DepthFirstReach ==
    FreshCrawlReturned =>
        /\ FetchedUrls = CrawlOf(KnownAnchors, domain, max_depth, Seed, 0, {})
        /\ \A i \in 1..Len(fetchLog) :
             \A a \in ScopeLinks(fetchLog[i].url) \ FetchedUrls :
                 fetchLog[i].depth = max_depth

\* A page at a link distance of max_depth at most from the seed is not
\* fetched: it is linked from a page fetched at depth max_depth that is
\* nearer to the seed than that; with the anchors of the seed in the
\* opposite order the page is fetched.
C22_Witness ==
    /\ FreshCrawlReturned
    /\ \E a \in WithinDistance(max_depth) \ FetchedUrls :
         /\ \E i \in 1..Len(fetchLog) :
              /\ a \in ScopeLinks(fetchLog[i].url)
              /\ fetchLog[i].depth = max_depth
              /\ fetchLog[i].url \in WithinDistance(max_depth - 1)
         /\ a \in CrawlOf(SeedAnchorsReversed, domain, max_depth, Seed, 0, {})

\* The fetch attempts of followed links: those below the seed.
LinkFetches == Cardinality({ i \in 1..Len(fetchLog) : fetchLog[i].depth > 0 })

\* A followed link whose call of crawl has not made its request yet.
AwaitingFetch ==
    /\ stack # <<>>
    /\ Top.depth > 0
    /\ Top.phase \in {"entry", "fetch"}

\* C19: during the crawl from a seed the delays taken are the fetch attempts
\* of followed links plus the one link whose delay is over and whose request
\* is about to be made: the call after a delay is never turned away by the
\* entry guard, and no delay is taken for a link that is not followed.  When
\* crawl has returned, the delays are the fetch attempts other than the
\* seed's, which is the first one.
C19_DelayBeforeEachLinkFetch ==
    pc = "crawl" =>
        /\ sleeps = LinkFetches + (IF AwaitingFetch THEN 1 ELSE 0)
        /\ (AwaitingFetch /\ Top.phase = "entry") => ~EntryVisited(Top.url, visited)
        /\ \A i \in 1..Len(fetchLog) : (fetchLog[i].depth = 0) <=> (i = 1)
        /\ (CrawlReturned /\ fetchLog # <<>>) => sleeps = Len(fetchLog) - 1

\* A crawl has returned after fetching followed links and after passing
\* over an anchor without href, a link to another domain, a link to a
\* skipped extension, a visited link and a link at the depth limit.
C19_Witness ==
    /\ CrawlReturned
    /\ sleeps >= 2
    /\ \E i \in 1..Len(fetchLog) :
         /\ Answered200(fetchLog[i].url)
         /\ web[fetchLog[i].url].anchors = <<NoHref, RootPage3>>
    /\ \E i \in 1..Len(fetchLog) :
         /\ Answered200(fetchLog[i].url)
         /\ web[fetchLog[i].url].anchors = <<SubUrl, DocUrl, RelPage2>>
    /\ \E i \in 1..Len(fetchLog) :
         /\ Answered200(fetchLog[i].url)
         /\ fetchLog[i].depth = max_depth
         /\ web[fetchLog[i].url].anchors = <<Page2, Page1>>
         /\ \E u \in ResolvedAnchors(fetchLog[i].url) : u \notin visited

\* C16: a crawl from a seed terminates: every call of crawl returns, on
\* link graphs with cycles and self-links and under any pattern of failed
\* fetches (unless the process is interrupted).
C16_CrawlTerminates ==
    (pc = "crawl") ~> (CrawlReturned \/ pc = "killed")

\* A crawl has returned from a page that links to itself and to a page
\* linking back, after a fetch that failed.
C16_Witness ==
    /\ CrawlReturned
    /\ \E i \in 1..Len(fetchLog) : ~Answered200(fetchLog[i].url)
    /\ \E i \in 1..Len(fetchLog) :
         /\ Answered200(fetchLog[i].url)
         /\ fetchLog[i].depth < max_depth
         /\ fetchLog[i].url \in ResolvedAnchors(fetchLog[i].url)
    /\ \E i, j \in 1..Len(fetchLog) :
         /\ i < j
         /\ Answered200(fetchLog[i].url)
         /\ Answered200(fetchLog[j].url)
         /\ fetchLog[j].url \in ResolvedAnchors(fetchLog[i].url)
         /\ fetchLog[i].url \in ResolvedAnchors(fetchLog[j].url)

-----------------------------------------------------------------------------
(* Harvester: fetch_all_events                                             *)


\* Number of pages the API holds.
NPages == 3
\* Most requests one harvest is followed for.
MaxRequests == 5

Digits == <<"1", "2", "3", "4", "5">>

\* base_url, as in main.py ('https://api.amiv.ethz.ch/events/').
BaseUrl == SchemeSep \o <<"a", "/", "e", "/">>
\* build_api_url: base_url + "?" + the encoded where parameter.
build_api_url(base, f) == base \o <<"?", "w">>
\* The URL and the relative href of page k >= 2.
PageRel(k) == <<"e", "?", Digits[k]>>
PageUrl(k) == SchemeSep \o <<"a", "/">> \o PageRel(k)

\* The first URL requested, line 176.
InitialUrl(base, f) == IF f THEN build_api_url(base, f) ELSE base

\* The number of the page a URL names.
PageOf(u) ==
    IF u \in {BaseUrl, build_api_url(BaseUrl, TRUE)} THEN 1
    ELSE CHOOSE k \in 2..NPages : PageUrl(k) = u

\* The items of page k: k % 3 of them, each named by its page and position.
PageItems(k) == [i \in 1..(k % 3) |-> <<k, i>>]

\* The next hrefs a page may hold: none, an empty one, an absolute one (of
\* the first page, as it was requested, or of another) or a relative one.
NextChoices ==
    {NoneStr, Str(<<>>), Str(InitialUrl(BaseUrl, filter_dict))}
    \cup { Str(PageUrl(k)) : k \in 2..NPages }
    \cup { Str(PageRel(k)) : k \in 2..NPages }

\* What a request of url may give: a transport failure, an error status, or
\* a 200 with a JSON body that is an object with _items (and well-formed or
\* malformed _links), a list, or anything else.
ApiResponses(u) ==
    { [exc |-> TRUE, status |-> 0, kind |-> "none", items |-> <<>>, next |-> NoneStr] }
    \cup { [exc |-> FALSE, status |-> st, kind |-> "other", items |-> <<>>, next |-> NoneStr] :
             st \in {404, 500} }
    \cup { [exc |-> FALSE, status |-> 200, kind |-> "object", items |-> PageItems(PageOf(u)),
            next |-> n] : n \in NextChoices }
    \cup { [exc |-> FALSE, status |-> 200, kind |-> k, items |-> PageItems(PageOf(u)),
            next |-> NoneStr] : k \in {"badlinks", "list"} }
    \cup { [exc |-> FALSE, status |-> 200, kind |-> "other", items |-> <<>>, next |-> NoneStr] }

\* str.rstrip('/').
RECURSIVE RStripSlash(_)
RStripSlash(s) ==
    IF s # <<>> /\ s[Len(s)] = "/" THEN RStripSlash(SubSeq(s, 1, Len(s) - 1)) ELSE s

\* Lines 193-198: the next link, resolved against base_url when it does not
\* start with 'http'.
NextUrl(base, href) ==
    IF Truthy(href) /\ ~StartsWith(href.s, <<"h", "t", "t", "p">>)
    THEN Str(UrlJoin(RStripSlash(base), href.s))
    ELSE href

\* A request that forgets raise_for_status.
RequestFails_NoStatusCheck(resp) == resp.exc

\* Lines 185-186: requests.get raises, or raise_for_status does (4xx, 5xx).
RequestFails(resp) == resp.exc \/ (resp.status >= 400 /\ resp.status < 600)

\* An object page whose items replace the accumulator.
ObjectPage_Overwrite(acc, data, base) ==
    [events |-> data.items, url |-> NextUrl(base, data.next)]

\* Lines 190-198: an object with _items.
ObjectPage(acc, data, base) ==
    [events |-> acc \o data.items, url |-> NextUrl(base, data.next)]

\* Lines 202-205: a bare list.
ListPage(acc, data) == [events |-> acc \o data.items, url |-> NoneStr]

\* Another shape that throws the accumulator away.
OtherShape_Dropped(acc) == [events |-> <<>>, url |-> NoneStr]

\* Lines 206-207: any other shape.
OtherShape(acc) == [events |-> acc, url |-> NoneStr]

NoResult == [returned |-> FALSE, value |-> <<>>]

HarvestInit ==
    /\ hpc = "call"
    /\ filter_dict \in BOOLEAN
    /\ hurl = NoneStr
    /\ events = <<>>
    /\ hresult = NoResult
    /\ api = <<>>
    /\ requests = <<>>

HarvestParked ==
    /\ hpc = "parked"
    /\ filter_dict = FALSE
    /\ hurl = NoneStr
    /\ events = <<>>
    /\ hresult = NoResult
    /\ api = <<>>
    /\ requests = <<>>

\* Lines 173-176.
HarvestCall ==
    /\ hpc = "call"
    /\ events' = <<>>
    /\ hurl' = Str(InitialUrl(BaseUrl, filter_dict))
    /\ hpc' = "loop"
    /\ UNCHANGED <<filter_dict, hresult, api, requests>>
    /\ UNCHANGED <<crawlVars, classifyVars, extractVars>>

\* A loop that stops at a URL it has requested before.
LoopGoesOn_Unrequested(url, requested) == Truthy(url) /\ url.s \notin Range(requested)

\* Line 178: while url.  The URLs requested so far play no part.
LoopGoesOn(url, requested) == Truthy(url)

\* Lines 178-207: one iteration of the loop.  An exception leaves the
\* function: the caller receives no value.
HarvestPage ==
    /\ hpc = "loop"
    /\ LoopGoesOn(hurl, requests)
    /\ Len(requests) < MaxRequests
    /\ \E resp \in ApiResponses(hurl.s) :
         /\ hurl.s \in DOMAIN api => resp = api[hurl.s]
         /\ api' = IF hurl.s \in DOMAIN api THEN api ELSE api @@ (hurl.s :> resp)
         /\ requests' = Append(requests, hurl.s)
         /\ IF RequestFails(resp)
            THEN /\ hpc' = "raised"
                 /\ UNCHANGED <<hurl, events>>
            ELSE LET out == CASE resp.kind = "object" -> ObjectPage(events, resp, BaseUrl)
                              [] resp.kind = "badlinks" -> ObjectPage(events, resp, BaseUrl)
                              [] resp.kind = "list" -> ListPage(events, resp)
                              [] OTHER -> OtherShape(events)
                 IN  /\ events' = out.events
                     /\ IF resp.kind = "badlinks"
                        THEN /\ hpc' = "raised"
                             /\ UNCHANGED hurl
                        ELSE /\ hpc' = "loop"
                             /\ hurl' = out.url
    /\ UNCHANGED <<filter_dict, hresult>>
    /\ UNCHANGED <<crawlVars, classifyVars, extractVars>>

\* Line 208.
HarvestReturn ==
    /\ hpc = "loop"
    /\ ~LoopGoesOn(hurl, requests)
    /\ hresult' = [returned |-> TRUE, value |-> events]
    /\ hpc' = "returned"
    /\ UNCHANGED <<filter_dict, hurl, events, api, requests>>
    /\ UNCHANGED <<crawlVars, classifyVars, extractVars>>

HarvestNext ==
    \/ HarvestCall
    \/ HarvestPage
    \/ HarvestReturn

-----------------------------------------------------------------------------
(* Harvester: properties                                                   *)

StartUrl == InitialUrl(BaseUrl, filter_dict)
LastResponse == api[requests[Len(requests)]]

\* The page a next href names: the API's hrefs are absolute URLs of its
\* pages or their relative form.
TargetOf(href) ==
    IF \E k \in 2..NPages : href = PageRel(k)
    THEN PageUrl(CHOOSE k \in 2..NPages : href = PageRel(k))
    ELSE href

IsObjectPage(u) ==
    /\ u \in DOMAIN api
    /\ ~api[u].exc
    /\ api[u].status = 200
    /\ api[u].kind = "object"

\* The chain of object pages that starts at u, each linked to the next by
\* its next href and the last without one; <<>> when what starts at u is no
\* such chain.
RECURSIVE ChainFrom(_, _)
ChainFrom(u, seen) ==
    IF u \in seen \/ ~IsObjectPage(u) THEN <<>>
    ELSE IF ~api[u].next.some THEN <<u>>
    ELSE IF api[u].next.s = <<>> THEN <<>>
    ELSE LET rest == ChainFrom(TargetOf(api[u].next.s), seen \cup {u})
         IN  IF rest = <<>> THEN <<>> ELSE <<u>> \o rest

\* The item lists of the pages of a chain, concatenated.
RECURSIVE ConcatPages(_)
ConcatPages(chain) ==
    IF chain = <<>> THEN <<>>
    ELSE api[Head(chain)].items \o ConcatPages(Tail(chain))

\* What the successful responses to the requests reqs hold, in order.
RECURSIVE Accumulated(_)
Accumulated(reqs) ==
    IF reqs = <<>> THEN <<>>
    ELSE LET r == api[reqs[Len(reqs)]]
         IN  Accumulated(SubSeq(reqs, 1, Len(reqs) - 1))
             \o (IF ~r.exc /\ r.status = 200 /\ r.kind \in {"object", "list"}
                 THEN r.items ELSE <<>>)

\* C5: on a finite chain of object pages, the last without a next link, the
\* harvest requests each page once, in chain order, and returns the pages'
\* item lists concatenated: every item once, in per-page order.
C5_ChainHarvested ==
    (hpc = "returned" /\ ChainFrom(StartUrl, {}) # <<>>) =>
        /\ requests = ChainFrom(StartUrl, {})
        /\ hresult.returned
        /\ hresult.value = ConcatPages(ChainFrom(StartUrl, {}))
        /\ \A i, j \in 1..Len(hresult.value) : i # j => hresult.value[i] # hresult.value[j]

\* A harvest of a chain of NPages pages, one of them reached by a relative
\* href, has returned the items of several pages.
C5_Witness ==
    /\ hpc = "returned"
    /\ Len(ChainFrom(StartUrl, {})) = NPages
    /\ \E u \in DOMAIN api : \E k \in 2..NPages : api[u].next = Str(PageRel(k))
    /\ \E i, j \in 1..Len(hresult.value) : hresult.value[i][1] # hresult.value[j][1]

\* C6: a request that fails (transport failure or a status other than
\* success) is the last request of the harvest, and the harvest ends with
\* an error: the caller receives no items, whatever was accumulated.
C6_FailureAborts ==
    \A i \in 1..Len(requests) :
        (api[requests[i]].exc \/ api[requests[i]].status # 200) =>
            /\ i = Len(requests)
            /\ hpc = "raised"
            /\ hresult = NoResult

\* A harvest that had accumulated items failed on a later page with an
\* error status.
C6_Witness ==
    /\ hpc = "raised"
    /\ Len(requests) >= 2
    /\ ~LastResponse.exc
    /\ LastResponse.status # 200
    /\ events # <<>>
    /\ hresult = NoResult

OtherShaped(r) == ~r.exc /\ r.status = 200 /\ r.kind = "other"

EndPage(r) ==
    /\ ~r.exc
    /\ r.status = 200
    /\ \/ r.kind \in {"list", "other"}
       \/ r.kind = "object" /\ ~Truthy(r.next)

\* The loop is about to request a URL it has requested before.
Revisit ==
    /\ hpc = "loop"
    /\ Truthy(hurl)
    /\ hurl.s \in Range(requests)

\* C23: the loop of fetch_all_events ends, and the function returns, exactly
\* when the last response is an object without a next link, a list or
\* another shape; once the next link names a URL requested before, every
\* step is a further request of such a URL that appends that page's items
\* again, so the function never returns.
C23_NoRecordOfRequests ==
    /\ [](/\ hpc = "returned" => (requests # <<>> /\ EndPage(LastResponse))
          /\ (hpc = "loop" /\ requests # <<>>) => (EndPage(LastResponse) <=> ~Truthy(hurl)))
    /\ [][Revisit =>
            /\ Revisit'
            /\ requests' = Append(requests, hurl.s)
            /\ events' = events \o api[hurl.s].items]_vars

\* The harvest has gone round a cycle of pages until the last request the
\* model follows: a URL was requested twice, its items are in the
\* accumulator twice, and the next request is again of a URL requested
\* before.
C23_Witness ==
    /\ Revisit
    /\ Len(requests) = MaxRequests
    /\ \E i, j \in 1..Len(requests) : i < j /\ requests[i] = requests[j]
    /\ \E i, j \in 1..Len(events) : i < j /\ events[i] = events[j]

-----------------------------------------------------------------------------
(* Classifier: texts and rule tables                                       *)

\* The upper-case form of each lower-case letter.
UpperOf ==
    [ a |-> "A", b |-> "B", c |-> "C", d |-> "D", e |-> "E", f |-> "F",
      g |-> "G", h |-> "H", i |-> "I", j |-> "J", k |-> "K", l |-> "L",
      m |-> "M", n |-> "N", o |-> "O", p |-> "P", q |-> "Q", r |-> "R",
      s |-> "S", t |-> "T", u |-> "U", v |-> "V", w |-> "W", x |-> "X",
      y |-> "Y", z |-> "Z" ]

\* str.upper() on one character.
UpperChar(c) == IF c \in DOMAIN UpperOf THEN UpperOf[c] ELSE c

\* str.title() of a one-word string: the first character upper-cased, the
\* others lower-cased.
Title(s) == [i \in 1..Len(s) |-> IF i = 1 THEN UpperChar(s[i]) ELSE LowerChar(s[i])]

\* unicodedata.normalize('NFD', c) of one character.
NFD(c) == IF c = "e_acute" THEN <<"e", "COMB_ACUTE">> ELSE <<c>>

\* unicodedata.category(c) = 'Mn'.
IsMn(c) == c = "COMB_ACUTE"

\* normalize_text: decompose, then drop the combining marks.
RECURSIVE normalize_text(_)
normalize_text(text) ==
    IF text = <<>> THEN <<>>
    ELSE SelectSeq(NFD(Head(text)), LAMBDA c : ~IsMn(c)) \o normalize_text(Tail(text))


\* A substitution that leaves the text as it is.
CollapseSpaces_Keep(s) == s

\* re.sub(r"\s+", " ", s).
RECURSIVE CollapseSpaces(_)
CollapseSpaces(s) ==
    IF s = <<>> THEN <<>>
    ELSE IF IsSpace(s[1])
         THEN IF Len(s) > 1 /\ IsSpace(s[2])
              THEN CollapseSpaces(Tail(s))
              ELSE <<" ">> \o CollapseSpaces(Tail(s))
         ELSE <<s[1]>> \o CollapseSpaces(Tail(s))

\* sep.join(parts).
RECURSIVE Join(_, _)
Join(sep, parts) ==
    IF parts = <<>> THEN <<>>
    ELSE IF Len(parts) = 1 THEN parts[1]
    ELSE parts[1] \o sep \o Join(sep, Tail(parts))

\* k in t for strings.
IsSubstring(k, t) ==
    \E i \in 0..(Len(t) - Len(k)) : SubSeq(t, i + 1, i + Len(k)) = k

\* Category ids.
food == <<"f", "o", "o", "d">>
drinks == <<"d", "r", "i", "n", "k", "s">>
snacks == <<"s", "n", "a", "c", "k", "s">>
sweet == <<"s", "w", "e", "e", "t">>
coffee == <<"c", "o", "f", "f", "e", "e">>
vegan == <<"v", "e", "g", "a", "n">>
misc == <<"m", "i", "s", "c">>

REFRESHMENT_DISPLAY_PRIORITY == <<food, drinks, snacks, sweet, coffee>>

\* keywords[:3] in the summary.
SummaryKeywords == 3

\* REFRESHMENT_RULES, in its insertion order, with some of the keywords of
\* each category.
REFRESHMENT_RULES ==
    << [category |-> drinks, label |-> Str(<<"D", "r", "i", "n", "k", "s">>),
        keywords |-> {<<"b", "e", "e", "r">>, <<"b", "a", "r">>, <<"a", "p", "e", "r", "o">>, <<"g", "i", "n">>}],
       [category |-> food, label |-> Str(<<"F", "o", "o", "d">>),
        keywords |-> {<<"p", "i", "z", "z", "a">>, <<"b", "b", "q">>, <<"f", "o", "o", "d">>}],
       [category |-> snacks, label |-> Str(<<"S", "n", "a", "c", "k", "s">>),
        keywords |-> {<<"f", "i", "n", "g", "e", "r", " ", "f", "o", "o", "d">>, <<"a", "p", "e", "r", "o", " ", "r", "i", "c", "h", "e">>, <<"c", "h", "i", "p", "s">>}],
       [category |-> sweet, label |-> Str(<<"D", "e", "s", "s", "e", "r", "t">>),
        keywords |-> {<<"c", "a", "k", "e">>, <<"i", "c", "e", " ", "c", "r", "e", "a", "m">>}],
       [category |-> coffee, label |-> Str(<<"C", "o", "f", "f", "e", "e", " ", "&", " ", "T", "e", "a">>),
        keywords |-> {<<"t", "e", "a">>, <<"t", "e", "e">>}] >>

\* Tables substituted for the default one: categories outside the display
\* priority list, a rule without a label, an empty keyword, a keyword in
\* upper case; a table of one rule; a table without rules.
MixedRules ==
    << [category |-> vegan, label |-> NoneStr,
        keywords |-> {<<"t", "o", "f", "u">>, <<>>}],
       [category |-> drinks, label |-> Str(<<"D", "r", "i", "n", "k", "s">>),
        keywords |-> {<<"b", "e", "e", "r">>, <<"T", "e", "a">>}],
       [category |-> misc, label |-> Str(<<"M", "i", "s", "c">>),
        keywords |-> {<<"p", "i", "z", "z", "a">>, <<"t", "a", "l", "k">>, <<"a">>}],
       [category |-> food, label |-> Str(<<"F", "o", "o", "d">>),
        keywords |-> {<<"p", "i", "z", "z", "a">>}] >>

SingleRule == << [category |-> misc, label |-> NoneStr, keywords |-> {<<"r", "i", "c", "h", "e">>, <<"b", "a", "r">>}] >>

\* A table of one rule holding an empty keyword beside four others.
EmptyKeywordRule ==
    << [category |-> drinks, label |-> Str(<<"D", "r", "i", "n", "k", "s">>),
        keywords |-> {<<>>, <<"g", "i", "n">>, <<"b", "e", "e", "r">>, <<"b", "a", "r">>,
                      <<"a", "p", "e", "r", "o">>}] >>

RuleTables == { REFRESHMENT_RULES, MixedRules, SingleRule, EmptyKeywordRule, <<>> }

\* The texts a field may hold; <<>> is a missing (or empty) field.
Texts ==
    { <<>>,
      <<" ", "\t">>,
      <<"P", "i", "z", "z", "a", " ", "b", "e", "e", "r">>,
      <<"b", "e", "e", "r", " ", "b", "a", "r", " ", "g", "i", "n", " ", "p", "i", "z", "z", "a", " ", "a", "p", "e", "r", "o">>,
      <<"A", "p", "e_acute", "r", "o", " ", "r", "i", "c", "h", "e">>,
      <<"f", "i", "n", "g", "e", "r", " ", "\t", " ", "f", "o", "o", "d", " ", "t", "o", "f", "u">>,
      <<"t", "e", "a", " ", "a", "n", "d", " ", "c", "a", "k", "e">>,
      <<"t", "a", "l", "k">>,
      <<"i", "c", "e", " ", "t", "e", "a", " ", "c", "r", "e", "a", "m">> }

\* The texts the German title may hold.
GermanTexts == { <<>>, <<"A", "p", "e_acute", "r", "o", " ", "r", "i", "c", "h", "e">> }

\* The events: the six text fields in the order of _build_refreshment_corpus
\* (title_en, catchphrase_en, description_en, title_de, catchphrase_de,
\* description_de), three of them varying.
Events ==
    { <<t1, <<>>, t2, t3, <<>>, <<>>>> : t1 \in Texts, t2 \in Texts, t3 \in GermanTexts }

-----------------------------------------------------------------------------
(* Classifier: infer_refreshments                                          *)

\* _build_refreshment_corpus.
build_refreshment_corpus(ev) ==
    LET combined == Strip(Join(<<" ">>, SelectSeq(ev, LAMBDA f : f # <<>>)))
    IN  IF combined = <<>> THEN <<>>
        ELSE CollapseSpaces(normalize_text(Lower(combined)))

\* _keyword_in_text.
keyword_in_text(keyword, text) ==
    LET keyword_norm == CollapseSpaces(normalize_text(Lower(keyword)))
    IN  IF keyword_norm # <<>> THEN IsSubstring(keyword_norm, text) ELSE FALSE

\* Hits in descending order.
CategoryHits_Descending(config, corpus) ==
    LET hits == Sorted({ keyword \in config.keywords :
                           keyword # <<>> /\ keyword_in_text(keyword, corpus) })
    IN  [i \in 1..Len(hits) |-> hits[Len(hits) + 1 - i]]

\* Lines 286-290: the sorted hits of one rule.
CategoryHits(config, corpus) ==
    Sorted({ keyword \in config.keywords : keyword # <<>> /\ keyword_in_text(keyword, corpus) })

\* Lines 282-292: the matches dict, in insertion order.
RECURSIVE Matches(_, _)
Matches(rl, corpus) ==
    IF rl = <<>> THEN <<>>
    ELSE LET hits == CategoryHits(Head(rl), corpus)
         IN  (IF hits # <<>> THEN << [category |-> Head(rl).category, hits |-> hits] >>
              ELSE <<>>) \o Matches(Tail(rl), corpus)

Keys(m) == { m[i].category : i \in 1..Len(m) }
KeySeq(m) == [i \in 1..Len(m) |-> m[i].category]

\* Categories in the order of their discovery only.
Categories_DiscoveryOrder(m) == KeySeq(m)

\* Categories of the display priority list only.
Categories_PriorityOnly(m) ==
    SelectSeq(REFRESHMENT_DISPLAY_PRIORITY, LAMBDA cat : cat \in Keys(m))

\* Lines 297-299.
Categories(m) ==
    SelectSeq(REFRESHMENT_DISPLAY_PRIORITY, LAMBDA cat : cat \in Keys(m))
    \o SelectSeq(KeySeq(m), LAMBDA cat : cat \notin Range(REFRESHMENT_DISPLAY_PRIORITY))

\* rules.get(category, {}).get("label", category.title()).
LabelOf(rl, category) ==
    LET r == CHOOSE x \in Range(rl) : x.category = category
    IN  IF (\E x \in Range(rl) : x.category = category) /\ r.label.some
        THEN r.label.s
        ELSE Title(category)

\* matches.get(category, []).
HitsOf(m, category) ==
    IF category \in Keys(m)
    THEN (CHOOSE x \in Range(m) : x.category = category).hits
    ELSE <<>>

\* _format_refreshment_summary.
format_refreshment_summary(categories, m, rl) ==
    LET part(category) ==
            LET label == LabelOf(rl, category)
                keywords == HitsOf(m, category)
            IN  IF keywords = <<>> THEN label
                ELSE label \o <<" ", "(">>
                     \o Join(<<",", " ">>,
                             SubSeq(keywords, 1, IF Len(keywords) < SummaryKeywords
                                                 THEN Len(keywords) ELSE SummaryKeywords))
                     \o <<")">>
    IN  Join(<<" ", "MIDDOT", " ">>, [i \in 1..Len(categories) |-> part(categories[i])])

EmptyResult == [categories |-> <<>>, matches |-> <<>>, summary |-> NoneStr]

\* infer_refreshments.  matches is given as the mapping the caller sees.
infer_refreshments(ev, rl) ==
    LET corpus == build_refreshment_corpus(ev)
        m == Matches(rl, corpus)
        categories == Categories(m)
    IN  IF corpus = <<>> THEN EmptyResult
        ELSE IF m = <<>> THEN EmptyResult
        ELSE [categories |-> categories,
              matches |-> [c \in Keys(m) |-> HitsOf(m, c)],
              summary |-> Str(format_refreshment_summary(categories, m, rl))]

\* The tables with the rules of rl in any iteration order.
Reorderings(rl) ==
    { [i \in 1..Len(rl) |-> rl[p[i]]] :
        p \in { q \in [1..Len(rl) -> 1..Len(rl)] : \A i, j \in 1..Len(rl) : q[i] = q[j] => i = j } }

ClassifyInit ==
    /\ cpc = "input"
    /\ event \in Events
    /\ rules \in RuleTables
    /\ result = EmptyResult
    /\ rules2 = <<>>
    /\ result2 = EmptyResult

ClassifyParked ==
    /\ cpc = "parked"
    /\ event = <<>>
    /\ rules = <<>>
    /\ result = EmptyResult
    /\ rules2 = <<>>
    /\ result2 = EmptyResult

\* classify(event, rules).
Classify ==
    /\ cpc = "input"
    /\ result' = infer_refreshments(event, rules)
    /\ cpc' = "classified"
    /\ UNCHANGED <<event, rules, rules2, result2>>
    /\ UNCHANGED <<crawlVars, harvestVars, extractVars>>

\* classify(event, rules2) for a table holding the same rules in another
\* iteration order.
ClassifyReordered ==
    /\ cpc = "classified"
    /\ \E r2 \in Reorderings(rules) :
         /\ rules2' = r2
         /\ result2' = infer_refreshments(event, r2)
    /\ cpc' = "compared"
    /\ UNCHANGED <<event, rules, result>>
    /\ UNCHANGED <<crawlVars, harvestVars, extractVars>>

ClassifyNext ==
    \/ Classify
    \/ ClassifyReordered

-----------------------------------------------------------------------------
(* Classifier: properties                                                  *)

InPriority(cat) == cat \in Range(REFRESHMENT_DISPLAY_PRIORITY)
PriorityIndex(cat) ==
    CHOOSE i \in 1..Len(REFRESHMENT_DISPLAY_PRIORITY) : REFRESHMENT_DISPLAY_PRIORITY[i] = cat
RuleIndex(cat) == CHOOSE i \in 1..Len(rules) : rules[i].category = cat

\* The categories of rules with a non-empty keyword found in the corpus of
\* event.
HitCategories ==
    LET corpus == build_refreshment_corpus(event)
    IN  IF corpus = <<>> THEN {}
        ELSE { rules[i].category :
                 i \in { n \in 1..Len(rules) :
                           \E k \in rules[n].keywords :
                               k # <<>> /\ keyword_in_text(k, corpus) } }

EmptyIff(r) ==
    /\ (r.categories = <<>>) <=> (DOMAIN r.matches = {})
    /\ (DOMAIN r.matches = {}) <=> ~r.summary.some
    /\ r.categories # <<>> => Range(r.categories) = DOMAIN r.matches

\* C8: in every result, categories is empty iff matches is empty iff
\* summary is None; when not empty, the categories are the keys of matches.
C8_EmptyIff ==
    /\ cpc \in {"classified", "compared"} => EmptyIff(result)
    /\ cpc = "compared" => EmptyIff(result2)

\* A result whose only categories are outside the display priority list.
C8_Witness ==
    /\ cpc = "classified"
    /\ result.categories # <<>>
    /\ \A c \in Range(result.categories) : ~InPriority(c)
    /\ result.summary.some

\* C9: categories holds each hit category once; those of the display
\* priority list come first, in the order food, drinks, snacks, sweet,
\* coffee, the others after them (in the order of their rules); the order
\* is set by the hit categories, not by the place of the keywords in the
\* text.
C9_DisplayOrder ==
    cpc \in {"classified", "compared"} =>
        LET cats == result.categories
        IN  /\ \A i, j \in 1..Len(cats) : i # j => cats[i] # cats[j]
            /\ Range(cats) = HitCategories
            /\ \A i, j \in 1..Len(cats) :
                 i < j =>
                    /\ InPriority(cats[j]) => InPriority(cats[i])
                    /\ (InPriority(cats[i]) /\ InPriority(cats[j]))
                          => PriorityIndex(cats[i]) < PriorityIndex(cats[j])
                    /\ (~InPriority(cats[i]) /\ ~InPriority(cats[j]))
                          => RuleIndex(cats[i]) < RuleIndex(cats[j])

\* The text names tofu (vegan) first, then pizza (food, misc), then beer
\* (drinks); the categories are food, drinks, then vegan and misc.
C9_Witness ==
    /\ cpc = "classified"
    /\ rules = MixedRules
    /\ build_refreshment_corpus(event)
         = <<"f", "i", "n", "g", "e", "r", " ", "f", "o", "o", "d", " ", "t", "o", "f", "u", " ", "p", "i", "z", "z", "a", " ", "b", "e", "e", "r">>
    /\ result.categories = <<food, drinks, vegan, misc>>

OthersHit(r) == { c \in Range(r.categories) : ~InPriority(c) }

\* C10 as stated: two tables with the same rules in different iteration
\* order give identical categories, matches and summary.
C10_OrderImmaterial ==
    cpc = "compared" => result2 = result

\* C10 as amended: the iteration order of the rules does not change matches,
\* nor which categories are listed, nor the order of the categories of the
\* display priority list; with at most one hit category outside that list
\* (so for every table whose categories are all in it) the whole result is
\* identical.
C10_OrderImmaterialUpToOthers ==
    cpc = "compared" =>
        /\ result2.matches = result.matches
        /\ Range(result2.categories) = Range(result.categories)
        /\ SelectSeq(result2.categories, InPriority) = SelectSeq(result.categories, InPriority)
        /\ result2.summary.some = result.summary.some
        /\ Cardinality(OthersHit(result)) <= 1 => result2 = result

\* A table of four rules, iterated in another order, gives the identical
\* result for an event that hits two categories of the priority list and one
\* outside it.
C10_Witness ==
    /\ cpc = "compared"
    /\ rules = MixedRules
    /\ rules2 # rules
    /\ Cardinality(OthersHit(result)) = 1
    /\ Len(result.categories) = 3
    /\ result2 = result

\* The words of a string: its maximal runs of characters other than
\* whitespace.
RECURSIVE SplitWords(_)
SplitWords(s) ==
    IF s = <<>> THEN <<>>
    ELSE IF IsSpace(s[1]) THEN SplitWords(Tail(s))
    ELSE LET n == Least({ j \in 1..Len(s) : j = Len(s) \/ IsSpace(s[j + 1]) })
         IN  <<SubSeq(s, 1, n)>> \o SplitWords(SubSeq(s, n + 1, Len(s)))

\* Whether text holds, from position p on, the words one after the other
\* with nothing but whitespace (at least one character of it) between them.
RECURSIVE PhraseAt(_, _, _)
PhraseAt(words, text, p) ==
    LET w == Head(words)
        q == p + Len(w)
    IN  /\ q - 1 <= Len(text)
        /\ SubSeq(text, p, q - 1) = w
        /\ \/ Len(words) = 1
           \/ \E g \in 1..(Len(text) - q + 1) :
                 /\ \A k \in q..(q + g - 1) : IsSpace(text[k])
                 /\ PhraseAt(Tail(words), text, q + g)

\* The text of the event before whitespace is collapsed: the fields that
\* are not empty, joined by spaces, in lower case and without accents.
UncollapsedText ==
    normalize_text(Lower(Join(<<" ">>, SelectSeq(event, LAMBDA f : f # <<>>))))

\* The keywords of several words of the table.
MultiWordKeywords(i) ==
    { k \in rules[i].keywords : Len(SplitWords(normalize_text(Lower(k)))) >= 2 }

\* C15: a keyword of several words (without whitespace around it) is a hit
\* exactly when its words stand in the text one after the other with only
\* whitespace, of any length, between them: words with other words between
\* them are no hit.
C15_ContiguousPhrase ==
    cpc = "classified" =>
        LET text == UncollapsedText
        IN  \A i \in 1..Len(rules) :
                \A k \in MultiWordKeywords(i) :
                    LET words == SplitWords(normalize_text(Lower(k)))
                    IN  (/\ rules[i].category \in DOMAIN result.matches
                         /\ k \in Range(result.matches[rules[i].category]))
                        <=> \E p \in { q \in 1..Len(text) : text[q] = words[1][1] } :
                                PhraseAt(words, text, p)

\* One field holds "ice tea cream", another "finger", three whitespace
\* characters and "food": finger food is a hit, ice cream is none (tea is).
C15_Witness ==
    /\ cpc = "classified"
    /\ rules = REFRESHMENT_RULES
    /\ event[1] = <<"i", "c", "e", " ", "t", "e", "a", " ", "c", "r", "e", "a", "m">>
    /\ event[3] = <<"f", "i", "n", "g", "e", "r", " ", "\t", " ", "f", "o", "o", "d", " ", "t", "o", "f", "u">>
    /\ DOMAIN result.matches = {snacks, food, coffee}
    /\ result.matches[snacks] = << <<"f", "i", "n", "g", "e", "r", " ", "f", "o", "o", "d">> >>

\* The keywords of the rule of a category that are not empty and are found
\* in the corpus of event.
MatchingKeywords(cat) ==
    LET corpus == build_refreshment_corpus(event)
    IN  { k \in rules[RuleIndex(cat)].keywords : k # <<>> /\ keyword_in_text(k, corpus) }

\* keywords[:3].
FirstKeywords(hits) ==
    SubSeq(hits, 1, IF Len(hits) < SummaryKeywords THEN Len(hits) ELSE SummaryKeywords)

\* The summary that shows, in the order of result.categories, each label
\* with the first keywords of result.matches.
SummaryOfResult ==
    Join(<<" ", "MIDDOT", " ">>,
         [i \in 1..Len(result.categories) |->
            LabelOf(rules, result.categories[i]) \o <<" ", "(">>
            \o Join(<<",", " ">>, FirstKeywords(result.matches[result.categories[i]]))
            \o <<")">>])

\* C20: for each category of matches, the list holds the matching keywords
\* of that rule, each once, in ascending lexical order, and never the empty
\* keyword; the summary shows the categories in the order of categories,
\* each with its label and the first three keywords at most of that list.
C20_SortedHits ==
    cpc = "classified" =>
        /\ \A cat \in DOMAIN result.matches :
             LET hits == result.matches[cat]
             IN  /\ Range(hits) = MatchingKeywords(cat)
                 /\ \A i, j \in 1..Len(hits) : i < j => StrLess(hits[i], hits[j])
                 /\ <<>> \notin Range(hits)
        /\ result.summary.some => result.summary.s = SummaryOfResult

\* The rule holds an empty keyword and four keywords found in the text: the
\* four are listed in order and the summary shows the first three.
C20_Witness ==
    /\ cpc = "classified"
    /\ rules = EmptyKeywordRule
    /\ drinks \in DOMAIN result.matches
    /\ result.matches[drinks] =
         << <<"a", "p", "e", "r", "o">>, <<"b", "a", "r">>, <<"b", "e", "e", "r">>,
            <<"g", "i", "n">> >>
    /\ result.summary.s =
         <<"D", "r", "i", "n", "k", "s", " ", "(", "a", "p", "e", "r", "o", ",", " ",
           "b", "a", "r", ",", " ", "b", "e", "e", "r", ")">>

-----------------------------------------------------------------------------
(* Field extractor: extract_event_fields                                   *)

\* s[from - 1:to] of Python: the characters of s at the 1-based positions
\* from..to, cut at the end of s.
Slice(s, from, to) == SubSeq(s, from, IF to > Len(s) THEN Len(s) ELSE to)

Timestamp20 ==
    <<"2", "0", "2", "4", "-", "0", "5", "-", "1", "3", "T", "1", "8", ":", "3", "7", ":", "5", "9", "Z">>

\* The values time_start and time_end may hold; NoneStr is a missing field.
Timestamps ==
    { NoneStr, Str(<<>>), Str(SubSeq(Timestamp20, 1, 4)), Str(SubSeq(Timestamp20, 1, 10)),
      Str(SubSeq(Timestamp20, 1, 15)), Str(SubSeq(Timestamp20, 1, 16)), Str(Timestamp20) }

EnglishTitle == <<"P", "i", "z", "z", "a", " ", "b", "e", "e", "r">>
GermanTitle == <<"A", "p", "e_acute", "r", "o", " ", "r", "i", "c", "h", "e">>
EventUrl == <<"e", "/", "1">>

\* The shapes of _links: the key missing, {}, {"self": {}},
\* {"self": {"href": ...}}, and null.
LinkShapes ==
    { [shape |-> "absent", href |-> <<>>],
      [shape |-> "empty", href |-> <<>>],
      [shape |-> "no_href", href |-> <<>>],
      [shape |-> "href", href |-> EventUrl],
      [shape |-> "null", href |-> <<>>] }

\* The raw events: each field missing (NoneStr) or holding a string.
RawEvents ==
    [ title_en : {NoneStr, Str(<<>>), Str(EnglishTitle)},
      title_de : {NoneStr, Str(<<>>), Str(GermanTitle)},
      description_en : {NoneStr, Str(<<"t", "e", "a", " ", "a", "n", "d", " ", "c", "a", "k", "e">>)},
      time_start : Timestamps,
      time_end : Timestamps,
      location : {NoneStr, Str(<<"H", "G">>)},
      links : LinkShapes ]

\* event.get(name, "").
GetOrEmpty(field) == IF field.some THEN field.s ELSE <<>>

\* An access by index, which raises on a missing key.
SelfHref_Indexed(links) ==
    IF links.shape = "href" THEN [raised |-> FALSE, value |-> links.href]
    ELSE [raised |-> TRUE, value |-> <<>>]

\* Line 222: event.get("_links", {}).get("self", {}).get("href", ""); a
\* null _links has no get.
SelfHref(links) ==
    CASE links.shape = "null" -> [raised |-> TRUE, value |-> <<>>]
      [] links.shape = "href" -> [raised |-> FALSE, value |-> links.href]
      [] OTHER -> [raised |-> FALSE, value |-> <<>>]

\* Line 224: event.get("title_en", event.get("title_de", "")).
EventTitle(ev) ==
    IF ev.title_en.some THEN ev.title_en.s
    ELSE IF ev.title_de.some THEN ev.title_de.s
    ELSE <<>>

\* Line 227: time_start[:10] if time_start else "".
DateOf(time_start) == IF time_start # <<>> THEN Slice(time_start, 1, 10) ELSE <<>>

\* A slice taken whatever the length.
HourMinute_NoLengthTest(t) == IF t # <<>> THEN Slice(t, 12, 16) ELSE <<>>

\* Lines 229 and 232: t[11:16] if t and len(t) >= 16 else "".
HourMinute(t) == IF t # <<>> /\ Len(t) >= 16 THEN Slice(t, 12, 16) ELSE <<>>

\* The six text fields of the raw event, in the order of
\* _build_refreshment_corpus.
TextFields(ev) ==
    <<GetOrEmpty(ev.title_en), <<>>, GetOrEmpty(ev.description_en),
      GetOrEmpty(ev.title_de), <<>>, <<>>>>

NotExtracted ==
    [raised |-> FALSE, url |-> <<>>, title |-> <<>>, date |-> <<>>, start_time |-> <<>>,
     end_time |-> <<>>, location |-> <<>>, refreshments |-> NoneStr,
     refreshment_details |-> EmptyResult]

\* extract_event_fields: the record, or an exception (raised).
extract_event_fields(ev) ==
    LET url == SelfHref(ev.links)
        time_start == GetOrEmpty(ev.time_start)
        time_end == GetOrEmpty(ev.time_end)
        refreshments == infer_refreshments(TextFields(ev), REFRESHMENT_RULES)
    IN  IF url.raised THEN [NotExtracted EXCEPT !.raised = TRUE]
        ELSE [raised |-> FALSE,
              url |-> url.value,
              title |-> EventTitle(ev),
              date |-> DateOf(time_start),
              start_time |-> HourMinute(time_start),
              end_time |-> HourMinute(time_end),
              location |-> GetOrEmpty(ev.location),
              refreshments |-> refreshments.summary,
              refreshment_details |-> refreshments]

ExtractInit ==
    /\ xpc = "input"
    /\ rawEvent \in RawEvents
    /\ extracted = NotExtracted

ExtractParked ==
    /\ xpc = "parked"
    /\ rawEvent = <<>>
    /\ extracted = NotExtracted

\* extract(event).
Extract ==
    /\ xpc = "input"
    /\ extracted' = extract_event_fields(rawEvent)
    /\ xpc' = "extracted"
    /\ UNCHANGED rawEvent
    /\ UNCHANGED <<crawlVars, harvestVars, classifyVars>>

ExtractNext ==
    \/ Extract

Extracted == xpc = "extracted" /\ ~extracted.raised

\* C13: start_time (end_time) is the characters 11..15 (counted from 0) of
\* time_start (time_end) when the timestamp has at least 16 characters, and
\* empty otherwise; date is the first 10 characters of time_start, and empty
\* when time_start is missing.
C13_TimeSlicing ==
    Extracted =>
        LET hhmm(field) ==
                IF field.some /\ Len(field.s) >= 16
                THEN [i \in 1..5 |-> field.s[11 + i]]
                ELSE <<>>
            ts == rawEvent.time_start
        IN  /\ extracted.start_time = hhmm(ts)
            /\ extracted.end_time = hhmm(rawEvent.time_end)
            /\ ~ts.some => extracted.date = <<>>
            /\ ts.some =>
                 /\ Len(extracted.date) = (IF Len(ts.s) < 10 THEN Len(ts.s) ELSE 10)
                 /\ \A i \in 1..Len(extracted.date) : extracted.date[i] = ts.s[i]

\* An event whose start has seconds and whose end stops one character short
\* of the minutes: the start time is 18:37, the end time is empty.
C13_Witness ==
    /\ Extracted
    /\ rawEvent.time_start = Str(Timestamp20)
    /\ Len(rawEvent.time_end.s) = 15
    /\ extracted.date = <<"2", "0", "2", "4", "-", "0", "5", "-", "1", "3">>
    /\ extracted.start_time = <<"1", "8", ":", "3", "7">>
    /\ extracted.end_time = <<>>

\* C14 as stated: the title is the English title when there is one (the
\* field is present and not empty), otherwise the German title when there is
\* one, otherwise the empty string.
C14_TitleFallback ==
    Extracted =>
        extracted.title =
            (IF Truthy(rawEvent.title_en) THEN rawEvent.title_en.s
             ELSE IF Truthy(rawEvent.title_de) THEN rawEvent.title_de.s
             ELSE <<>>)

\* C17: for a raw event with any of the fields it uses missing (and none of
\* them null), extract_event_fields returns a record, in which the field of
\* each missing input is the empty string.
C17_ExtractTotal ==
    (xpc = "extracted" /\ rawEvent.links.shape # "null") =>
        /\ ~extracted.raised
        /\ rawEvent.links.shape # "href" => extracted.url = <<>>
        /\ (~rawEvent.title_en.some /\ ~rawEvent.title_de.some) => extracted.title = <<>>
        /\ ~rawEvent.time_start.some => (extracted.date = <<>> /\ extracted.start_time = <<>>)
        /\ ~rawEvent.time_end.some => extracted.end_time = <<>>
        /\ ~rawEvent.location.some => extracted.location = <<>>
        /\ (\A i \in 1..6 : TextFields(rawEvent)[i] = <<>>) =>
               /\ extracted.refreshments = NoneStr
               /\ extracted.refreshment_details = EmptyResult

\* The event without any field has been extracted: every field is empty.
C17_Witness ==
    /\ Extracted
    /\ rawEvent.links.shape = "absent"
    /\ \A f \in {"title_en", "title_de", "description_en", "time_start", "time_end", "location"} :
         ~rawEvent[f].some
    /\ extracted = NotExtracted

-----
(* Specifications                                                          *)

Init == CrawlInit /\ HarvestParked /\ ClassifyParked /\ ExtractParked
Next == CrawlNext
Spec == Init /\ [][Next]_vars

\* The crawler where a write of the visited file may fail, on the seeds
\* SeedUrl and Page1, starting without a file.
NextStoreFaults ==
    \/ CrawlNext
    \/ SaveSeedFails
InitStoreFaults == Init /\ urls = <<SeedUrl, Page1>> /\ store = NoFile /\ max_depth = 1
SpecStoreFaults == InitStoreFaults /\ [][NextStoreFaults]_vars

\* The crawler with its scheduling: crawl is sequential code whose requests
\* have a timeout and whose delays are fixed, so a call that can take a step
\* takes it.  CrawlRunning is the state predicate ENABLED <<CrawlStep>>_vars:
\* each phase of the top frame has a step, and every step changes the stack.
\* CrawlFairness is weak fairness of CrawlStep, WF_vars(CrawlStep), with
\* that predicate written out.
CrawlRunning == pc = "crawl" /\ stack # <<>>
CrawlFairness == []<>(~CrawlRunning) \/ []<><<CrawlStep>>_vars
InitLive == Init /\ urls = <<SeedUrl>> /\ store = NoFile
SpecLive == InitLive /\ [][Next]_vars /\ CrawlFairness

InitHarvest == CrawlParked /\ HarvestInit /\ ClassifyParked /\ ExtractParked
SpecHarvest == InitHarvest /\ [][HarvestNext]_vars

InitClassify == CrawlParked /\ HarvestParked /\ ClassifyInit /\ ExtractParked
SpecClassify == InitClassify /\ [][ClassifyNext]_vars

\* The crawler on the seeds SeedUrl and Page1 without recursion, where the
\* seed serves any page of DetailPages and Page1 serves EventPage.
InitDetails ==
    /\ HarvestParked /\ ClassifyParked /\ ExtractParked
    /\ run = 1
    /\ pc = "main"
    /\ urls = <<SeedUrl, Page1>>
    /\ seedIdx = 1
    /\ max_depth = 0
    /\ visited = {}
    /\ domain = <<>>
    /\ stack = <<>>
    /\ store = NoFile
    /\ web = <<>>
    /\ fetchLog = <<>>
    /\ sleeps = 0
    /\ found_apero = <<>>
    /\ ioLog = <<>>
    /\ site \in DetailSites
SpecDetails == InitDetails /\ [][Next]_vars

InitExtract == CrawlParked /\ HarvestParked /\ ClassifyParked /\ ExtractInit
SpecExtract == InitExtract /\ [][ExtractNext]_vars

=============================================================================
